---- MODULE Spec2Model ----
(***************************************************************************)
(* Hard-mode Wordle analysis toolkit: feedback computation, partitioning,  *)
(* constraint filtering, guess selection and the per-game simulation loop. *)
(*                                                                         *)
(* A letter is a one-character string, a word is a 5-tuple of letters, a   *)
(* feedback is a 5-tuple over {0,1,2} (0 = gray, 1 = yellow, 2 = green).   *)
(* Python lists are sequences (1-based here, 0-based in the source), sets  *)
(* are sets, dicts are functions.  Float scores are represented by integer *)
(* keys that order exactly as the real numbers the source computes.        *)
(***************************************************************************)
EXTENDS Integers, Sequences, FiniteSets, TLC

VARIABLES
    \* --- one call of a pure function of analysis.py ---
    guess,          \* argument: the guess word
    target,         \* argument: the target word (also the hidden word of a game)
    pool,           \* argument: candidate list / pool
    observed,       \* argument: feedback passed to filter_candidates
    guess_pool,     \* argument: valid_guesses of a selector (or None)
    called,         \* which function has been applied ("none" before the call)
    ret,            \* its return value
    \* --- one game (play_game, play_game_improved, play_game_v2, simulate) ---
    driver,         \* which game loop runs
    answers,        \* the answer corpus (all_answers / answers)
    opener,         \* first guess
    strategy,       \* play_game's strategy name
    max_guesses,    \* turn budget
    guess2_table,   \* lookup table of play_game_v2 / simulate
    candidates,     \* current candidate list
    guesses,        \* trace: sequence of <<guess, feedback>>
    tested_letters, \* letters of all guesses so far
    green_known,    \* play_game: letter known at each position (or None)
    yellow_known,   \* play_game: letters known not to be at each position
    turn,           \* next value of the loop variable
    pc,             \* "idle" | "playing" | "done" | "raised"
    result          \* what the game returned: [n_guesses, solved]

fnVars   == <<guess, target, pool, observed, guess_pool, called, ret>>
gameVars == <<driver, answers, opener, strategy, max_guesses, guess2_table,
              candidates, guesses, tested_letters, green_known, yellow_known,
              turn, pc, result>>
vars     == <<guess, target, pool, observed, guess_pool, called, ret,
              driver, answers, opener, strategy, max_guesses, guess2_table,
              candidates, guesses, tested_letters, green_known, yellow_known,
              turn, pc, result>>

---------------------------------------------------------------------------
(* Values *)

None == "None"

WordLen == 5

Alphabet == <<"a","b","c","d","e","f","g","h","i","j","k","l","m",
              "n","o","p","q","r","s","t","u","v","w","x","y","z">>

Pos == 1..WordLen

AllCorrect == <<2, 2, 2, 2, 2>>

Range(s) == {s[i] : i \in DOMAIN s}

\* list.index(x): the first position holding x
Index(s, x) == CHOOSE i \in DOMAIN s : s[i] = x /\ \A j \in DOMAIN s : j < i => s[j] # x

RECURSIVE SumOver(_, _)
SumOver(S, f) ==
    IF S = {} THEN 0
    ELSE LET x == CHOOSE y \in S : TRUE IN f[x] + SumOver(S \ {x}, f)

---------------------------------------------------------------------------
(* analysis.py: compute_feedback *)

\* Pass 1: greens; a green consumes the target letter at its position
Pass1BugSubstring(g, t) ==
    [result           |-> [i \in Pos |-> IF g[i] \in Range(t) THEN 2 ELSE 0],
     target_remaining |-> [i \in Pos |-> IF g[i] \in Range(t) THEN None ELSE t[i]]]

Pass1BugShortRange(g, t) ==
    [result           |-> [i \in Pos |-> IF i < WordLen /\ g[i] = t[i] THEN 2 ELSE 0],
     target_remaining |-> [i \in Pos |-> IF i < WordLen /\ g[i] = t[i] THEN None ELSE t[i]]]

Pass1(g, t) ==
    [result           |-> [i \in Pos |-> IF g[i] = t[i] THEN 2 ELSE 0],
     target_remaining |-> [i \in Pos |-> IF g[i] = t[i] THEN None ELSE t[i]]]

\* Pass 2: yellows, positions i..5 in order; a yellow consumes the first
\* remaining occurrence of the letter
RECURSIVE Pass2BugNoConsume(_, _, _)
Pass2BugNoConsume(g, st, i) ==
    IF i > WordLen THEN st.result
    ELSE IF st.result[i] = 2 THEN Pass2BugNoConsume(g, st, i + 1)
    ELSE IF g[i] \in Range(st.target_remaining)
         THEN Pass2BugNoConsume(g, [st EXCEPT !.result[i] = 1], i + 1)
         ELSE Pass2BugNoConsume(g, st, i + 1)

\* a yellow consumes every remaining occurrence of the letter
RECURSIVE Pass2BugConsumeAll(_, _, _)
Pass2BugConsumeAll(g, st, i) ==
    IF i > WordLen THEN st.result
    ELSE IF st.result[i] = 2 THEN Pass2BugConsumeAll(g, st, i + 1)
    ELSE IF g[i] \in Range(st.target_remaining)
         THEN Pass2BugConsumeAll(g,
                    [result |-> [st.result EXCEPT ![i] = 1],
                     target_remaining |->
                         [k \in Pos |-> IF st.target_remaining[k] = g[i]
                                        THEN None ELSE st.target_remaining[k]]],
                    i + 1)
         ELSE Pass2BugConsumeAll(g, st, i + 1)

RECURSIVE Pass2(_, _, _)
Pass2(g, st, i) ==
    IF i > WordLen THEN st.result
    ELSE IF st.result[i] = 2 THEN Pass2(g, st, i + 1)
    ELSE IF g[i] \in Range(st.target_remaining)
         THEN Pass2(g,
                    [result |-> [st.result EXCEPT ![i] = 1],
                     target_remaining |->
                         [st.target_remaining EXCEPT
                             ![Index(st.target_remaining, g[i])] = None]],
                    i + 1)
         ELSE Pass2(g, st, i + 1)

compute_feedback(g, t) == Pass2(g, Pass1(g, t), 1)

---------------------------------------------------------------------------
(* analysis.py: partition_by_feedback, filter_candidates *)

RECURSIVE PartitionLoopBugOverwrite(_, _, _, _)
PartitionLoopBugOverwrite(g, cands, i, buckets) ==
    IF i > Len(cands) THEN buckets
    ELSE LET fb == compute_feedback(g, cands[i])
             b1 == IF fb \in DOMAIN buckets THEN buckets
                   ELSE buckets @@ (fb :> <<>>)
         IN PartitionLoopBugOverwrite(g, cands, i + 1,
                                      [b1 EXCEPT ![fb] = <<cands[i]>>])

\* a word is put at the front of its bucket
RECURSIVE PartitionLoopBugPrepend(_, _, _, _)
PartitionLoopBugPrepend(g, cands, i, buckets) ==
    IF i > Len(cands) THEN buckets
    ELSE LET fb == compute_feedback(g, cands[i])
             b1 == IF fb \in DOMAIN buckets THEN buckets
                   ELSE buckets @@ (fb :> <<>>)
         IN PartitionLoopBugPrepend(g, cands, i + 1,
                                    [b1 EXCEPT ![fb] = <<cands[i]>> \o b1[fb]])

\* the loop of partition_by_feedback over cands[i..], buckets built so far
RECURSIVE PartitionLoop(_, _, _, _)
PartitionLoop(g, cands, i, buckets) ==
    IF i > Len(cands) THEN buckets
    ELSE LET fb == compute_feedback(g, cands[i])
             b1 == IF fb \in DOMAIN buckets THEN buckets
                   ELSE buckets @@ (fb :> <<>>)
         IN PartitionLoop(g, cands, i + 1,
                          [b1 EXCEPT ![fb] = Append(b1[fb], cands[i])])

EmptyDict == [x \in {} |-> <<>>]

\* the loop starts at the second candidate
PartitionBugSkipFirst(g, cands) == PartitionLoop(g, cands, 2, EmptyDict)

partition_by_feedback(g, cands) == PartitionLoop(g, cands, 1, EmptyDict)

RECURSIVE FilterLoopBugSwappedArgs(_, _, _, _, _)
FilterLoopBugSwappedArgs(cands, g, fb, i, res) ==
    IF i > Len(cands) THEN res
    ELSE FilterLoopBugSwappedArgs(cands, g, fb, i + 1,
                    IF compute_feedback(cands[i], g) = fb
                    THEN Append(res, cands[i]) ELSE res)

RECURSIVE FilterLoopBugInverted(_, _, _, _, _)
FilterLoopBugInverted(cands, g, fb, i, res) ==
    IF i > Len(cands) THEN res
    ELSE FilterLoopBugInverted(cands, g, fb, i + 1,
                    IF compute_feedback(g, cands[i]) # fb
                    THEN Append(res, cands[i]) ELSE res)

RECURSIVE FilterLoopBugSkipFirst(_, _, _, _, _)
FilterLoopBugSkipFirst(cands, g, fb, i, res) ==
    IF i > Len(cands) THEN res
    ELSE FilterLoopBugSkipFirst(cands, g, fb, i + 1,
                    IF i > 1 /\ compute_feedback(g, cands[i]) = fb
                    THEN Append(res, cands[i]) ELSE res)

\* the loop stops before the last word
RECURSIVE FilterLoopBugSkipLast(_, _, _, _, _)
FilterLoopBugSkipLast(cands, g, fb, i, res) ==
    IF i >= Len(cands) THEN res
    ELSE FilterLoopBugSkipLast(cands, g, fb, i + 1,
                               IF compute_feedback(g, cands[i]) = fb
                               THEN Append(res, cands[i]) ELSE res)

\* the loop of filter_candidates over cands[i..], result built so far
RECURSIVE FilterLoop(_, _, _, _, _)
FilterLoop(cands, g, fb, i, res) ==
    IF i > Len(cands) THEN res
    ELSE FilterLoop(cands, g, fb, i + 1,
                    IF compute_feedback(g, cands[i]) = fb
                    THEN Append(res, cands[i]) ELSE res)

filter_candidates(cands, g, fb) == FilterLoop(cands, g, fb, 1, <<>>)

---------------------------------------------------------------------------
(* Inputs of the pure-function specifications *)

\* number of alphabet letters the exhaustively enumerated words use
FbLetters == 3

FbWords == [Pos -> {Alphabet[i] : i \in 1..FbLetters}]

sassy == <<"s","a","s","s","y">>
class == <<"c","l","a","s","s">>

\* (guess, target) pairs: every pair over the small alphabet, and the
\* duplicate-letter example of the specification
FbPairs == (FbWords \X FbWords) \cup {<<sassy, class>>}

IdleGame ==
    /\ driver = "none"
    /\ answers = <<>>
    /\ opener = None
    /\ strategy = None
    /\ max_guesses = 0
    /\ guess2_table = EmptyDict
    /\ candidates = <<>>
    /\ guesses = <<>>
    /\ tested_letters = {}
    /\ green_known = <<>>
    /\ yellow_known = <<>>
    /\ turn = 0
    /\ pc = "idle"
    /\ result = None

InitFeedback ==
    /\ \E p \in FbPairs : guess = p[1] /\ target = p[2]
    /\ pool = <<>>
    /\ observed = None
    /\ guess_pool = None
    /\ called = "none"
    /\ ret = None
    /\ IdleGame

CallComputeFeedback ==
    /\ called = "none"
    /\ pool = <<>>
    /\ called' = "compute_feedback"
    /\ ret' = compute_feedback(guess, target)
    /\ UNCHANGED <<guess, target, pool, observed, guess_pool>>
    /\ UNCHANGED gameVars

NextFeedback == CallComputeFeedback

SpecFeedback == InitFeedback /\ [][NextFeedback]_vars

---------------------------------------------------------------------------
(* Claims about compute_feedback *)

Count(S) == Cardinality(S)

\* C1: position i is Correct (2) iff guess[i] = target[i]; hence the number
\* of Correct positions equals the number of agreeing positions.
C1_CorrectIffEqual ==
    called = "compute_feedback" =>
        /\ \A i \in Pos : (ret[i] = 2) <=> (guess[i] = target[i])
        /\ Count({i \in Pos : ret[i] = 2}) = Count({i \in Pos : guess[i] = target[i]})

\* a call with a green, and a non-matching position whose letter occurs in
\* the target but was already consumed
C1_Witness ==
    /\ called = "compute_feedback"
    /\ \E i \in Pos : ret[i] = 2
    /\ \E j \in Pos : guess[j] # target[j] /\ guess[j] \in Range(target) /\ ret[j] = 0

\* C2: for every letter c, the positions of the guess holding c that are
\* marked Correct or Present never outnumber the occurrences of c in the
\* target.
C2_MultiplicityBound ==
    called = "compute_feedback" =>
        \A c \in Range(guess) :
            Count({i \in Pos : guess[i] = c /\ ret[i] \in {1, 2}})
                <= Count({i \in Pos : target[i] = c})

\* "sassy" against "class": green only at the matching 's', one more 's'
\* yellow, the third 's' gray
C2_Witness ==
    /\ called = "compute_feedback"
    /\ guess = sassy /\ target = class
    /\ ret = <<1, 1, 0, 2, 0>>

\* C3: compute_feedback(w, w) is all-Correct.
C3_SelfFeedbackAllCorrect ==
    (called = "compute_feedback" /\ guess = target) => ret = AllCorrect

\* a word with a repeated letter scored against itself
C3_Witness ==
    /\ called = "compute_feedback"
    /\ guess = target
    /\ Count(Range(guess)) < WordLen
    /\ Count(Range(guess)) > 1
    /\ ret = AllCorrect

---------------------------------------------------------------------------
(* Partitioner and Constraint Filter: one call on a bounded input *)

\* words the pools are drawn from: the first NumPoolWords of PoolLexicon
PoolLexicon == << sassy, class,
                  <<"g","l","a","s","s">>, <<"a","s","s","e","t">>,
                  <<"s","a","l","e","s">>, <<"b","r","a","s","s">>,
                  <<"l","a","s","s","o">> >>

NumPoolWords == 5

\* longest pool / candidate list
MaxPool == 3

PoolWords == {PoolLexicon[i] : i \in 1..NumPoolWords}

\* every list over PoolWords up to MaxPool long (order and repeats free)
Pools == UNION {[1..n -> PoolWords] : n \in 0..MaxPool}

\* feedback values handed to the filter: all that occur between pool words,
\* and all-gray
ObservedSet ==
    {compute_feedback(g, w) : g \in PoolWords, w \in PoolWords}
        \cup {<<0, 0, 0, 0, 0>>}

InitFilter ==
    /\ guess \in PoolWords
    /\ target = None
    /\ pool \in Pools
    /\ observed \in ObservedSet
    /\ guess_pool = None
    /\ called = "none"
    /\ ret = None
    /\ IdleGame

CallPartition ==
    /\ called = "none"
    /\ target = None
    /\ called' = "partition_by_feedback"
    /\ ret' = partition_by_feedback(guess, pool)
    /\ UNCHANGED <<guess, target, pool, observed, guess_pool>>
    /\ UNCHANGED gameVars

CallFilter ==
    /\ called = "none"
    /\ target = None
    /\ called' = "filter_candidates"
    /\ ret' = filter_candidates(pool, guess, observed)
    /\ UNCHANGED <<guess, target, pool, observed, guess_pool>>
    /\ UNCHANGED gameVars

\* the result of the first call is filtered again by the same pair: the
\* pool argument of the second call is the first call's result
CallFilterAgain ==
    /\ called = "filter_candidates"
    /\ called' = "filter_candidates_twice"
    /\ pool' = ret
    /\ ret' = filter_candidates(ret, guess, observed)
    /\ UNCHANGED <<guess, target, observed, guess_pool>>
    /\ UNCHANGED gameVars

NextFilter == CallPartition \/ CallFilter \/ CallFilterAgain

SpecFilter == InitFilter /\ [][NextFilter]_vars

\* number of positions of list s that hold w
Occurrences(s, w) == Count({i \in DOMAIN s : s[i] = w})

\* s is a subsequence of t holding exactly the elements of t that satisfy
\* keep, as often and in the order they occur in t
RECURSIVE KeptInOrder(_, _, _)
KeptInOrder(s, t, keep) ==
    IF t = <<>> THEN s = <<>>
    ELSE IF keep[Head(t)]
         THEN s # <<>> /\ Head(s) = Head(t) /\ KeptInOrder(Tail(s), Tail(t), keep)
         ELSE KeptInOrder(s, Tail(t), keep)

\* C4: the buckets are non-empty, pairwise disjoint, their union is the
\* candidate list, and each candidate lies (as often as it is listed) in
\* the bucket keyed by its own feedback and in no other.
C4_PartitionExact ==
    called = "partition_by_feedback" =>
        /\ \A fb \in DOMAIN ret : ret[fb] # <<>>
        /\ \A f1 \in DOMAIN ret : \A f2 \in DOMAIN ret :
              f1 # f2 => Range(ret[f1]) \cap Range(ret[f2]) = {}
        /\ UNION {Range(ret[fb]) : fb \in DOMAIN ret} = Range(pool)
        /\ SumOver(DOMAIN ret, [fb \in DOMAIN ret |-> Len(ret[fb])]) = Len(pool)
        /\ \A w \in Range(pool) :
              /\ compute_feedback(guess, w) \in DOMAIN ret
              /\ Occurrences(ret[compute_feedback(guess, w)], w) = Occurrences(pool, w)

\* a partition of a full-length list into several buckets, one of them with
\* more than one word
C4_Witness ==
    /\ called = "partition_by_feedback"
    /\ Len(pool) = MaxPool
    /\ Count(DOMAIN ret) > 1
    /\ \E fb \in DOMAIN ret : Len(ret[fb]) > 1

\* C5: filter_candidates returns exactly the words of the pool whose
\* feedback for the guess equals the observed one: none added, none dropped.
C5_FilterExact ==
    called = "filter_candidates" =>
        /\ KeptInOrder(ret, pool,
                       [w \in Range(pool) |-> compute_feedback(guess, w) = observed])
        /\ \A w \in Range(pool) :
              (w \in Range(ret)) <=> (compute_feedback(guess, w) = observed)
        /\ Range(ret) \subseteq Range(pool)

\* a filter call that keeps some words and drops others
C5_Witness ==
    /\ called = "filter_candidates"
    /\ ret # <<>>
    /\ Len(ret) < Len(pool)
    /\ Len(ret) > 1

\* C6: filtering the result again by the same (guess, feedback) returns the
\* same list.
C6_FilterIdempotent ==
    called = "filter_candidates_twice" => ret = pool

\* a second filtering of a non-empty result that the first call had reduced
C6_Witness ==
    /\ called = "filter_candidates_twice"
    /\ Len(ret) > 1
    /\ ret = pool

---------------------------------------------------------------------------
(* Words of the game model *)

adorn == <<"a","d","o","r","n">>
bumpy == <<"b","u","m","p","y">>
cleat == <<"c","l","e","a","t">>
cloth == <<"c","l","o","t","h">>
clout == <<"c","l","o","u","t">>
court == <<"c","o","u","r","t">>
deter == <<"d","e","t","e","r">>
dumpy == <<"d","u","m","p","y">>
float == <<"f","l","o","a","t">>
glint == <<"g","l","i","n","t">>
jumpy == <<"j","u","m","p","y">>
lumpy == <<"l","u","m","p","y">>
lunge == <<"l","u","n","g","e">>
mulch == <<"m","u","l","c","h">>
mummy == <<"m","u","m","m","y">>
olden == <<"o","l","d","e","n">>
outer == <<"o","u","t","e","r">>
pilot == <<"p","i","l","o","t">>
raise == <<"r","a","i","s","e">>
rebut == <<"r","e","b","u","t">>
recut == <<"r","e","c","u","t">>
stony == <<"s","t","o","n","y">>
stunk == <<"s","t","u","n","k">>
tangy == <<"t","a","n","g","y">>
towel == <<"t","o","w","e","l">>

\* position of a letter in the alphabet: the order Python compares strings by
Ord(ch) == CHOOSE i \in DOMAIN Alphabet : Alphabet[i] = ch

\* a < b for two words (str.__lt__)
WordLess(a, b) ==
    \E i \in Pos : /\ \A j \in Pos : j < i => a[j] = b[j]
                   /\ Ord(a[i]) < Ord(b[i])

\* sorted(S) for a set of words
RECURSIVE Sorted(_)
Sorted(S) ==
    IF S = {} THEN <<>>
    ELSE LET m == CHOOSE x \in S : \A y \in S : y = x \/ WordLess(x, y)
         IN <<m>> \o Sorted(S \ {m})

RECURSIVE ProdOver(_, _)
ProdOver(S, f) ==
    IF S = {} THEN 1
    ELSE LET x == CHOOSE y \in S : TRUE IN f[x] * ProdOver(S \ {x}, f)

---------------------------------------------------------------------------
(* analysis.py: scorers *)

\* expected_information.  The source returns the entropy
\*     H = -SUM (|b|/n) * log2(|b|/n)  =  (1/n) * log2( n^n / PROD |b|^|b| ).
\* It is represented by the integer n^n - PROD |b|^|b|, which for a fixed
\* candidate list is 0 exactly when H = 0 and grows strictly with H; every
\* use compares values over one candidate list, or against the start value -1.
expected_information(g, cands) ==
    LET n == Len(cands) IN
    IF n <= 1 THEN 0
    ELSE LET buckets == partition_by_feedback(g, cands)
         IN n ^ n - ProdOver(DOMAIN buckets,
                             [fb \in DOMAIN buckets |-> Len(buckets[fb]) ^ Len(buckets[fb])])

\* the bucket sizes are summed without being squared
ExpectedRemainingBugLinear(g, cands) ==
    LET n == Len(cands) IN
    IF n <= 1 THEN 0
    ELSE LET buckets == partition_by_feedback(g, cands)
         IN SumOver(DOMAIN buckets, [fb \in DOMAIN buckets |-> Len(buckets[fb])])

\* expected_remaining.  The source returns SUM |b|^2 / n; it is represented
\* by the numerator SUM |b|^2 (compared over one candidate list only).
expected_remaining(g, cands) ==
    LET n == Len(cands) IN
    IF n <= 1 THEN 0
    ELSE LET buckets == partition_by_feedback(g, cands)
         IN SumOver(DOMAIN buckets,
                    [fb \in DOMAIN buckets |-> Len(buckets[fb]) * Len(buckets[fb])])

\* float('inf') as start value of a minimum search
Infinity == 2147483647

\* positional_letter_frequency(words)[i][ch]
positional_letter_frequency(words, i, ch) ==
    Count({k \in DOMAIN words : words[k][i] = ch})

---------------------------------------------------------------------------
(* simulate.py: guess selectors *)

\* Python truthiness of an optional list argument
Truthy(lst) == lst # None /\ lst # <<>>

RECURSIVE InfoLoop(_, _, _, _)
InfoLoop(searched, cands, i, best) ==
    IF i > Len(searched) THEN best.word
    ELSE LET word    == searched[i]
             info    == expected_information(word, cands)
             is_cand == word \in Range(cands)
         IN InfoLoop(searched, cands, i + 1,
                     IF info > best.info
                        \/ (info = best.info /\ is_cand /\ ~best.is_candidate)
                     THEN [word |-> word, info |-> info, is_candidate |-> is_cand]
                     ELSE best)

best_guess_by_info(cands, valid_guesses) ==
    IF Len(cands) <= 2 THEN cands[1]
    ELSE InfoLoop(IF Truthy(valid_guesses) THEN valid_guesses ELSE cands,
                  cands, 1,
                  [word |-> None, info |-> -1, is_candidate |-> FALSE])

RECURSIVE RemainingLoop(_, _, _, _)
RemainingLoop(searched, cands, i, best) ==
    IF i > Len(searched) THEN best.word
    ELSE LET word    == searched[i]
             rem     == expected_remaining(word, cands)
             is_cand == word \in Range(cands)
         IN RemainingLoop(searched, cands, i + 1,
                          IF rem < best.rem \/ (rem = best.rem /\ is_cand)
                          THEN [word |-> word, rem |-> rem]
                          ELSE best)

best_guess_by_expected_remaining(cands, valid_guesses) ==
    IF Len(cands) <= 2 THEN cands[1]
    ELSE RemainingLoop(IF Truthy(valid_guesses) THEN valid_guesses ELSE cands,
                       cands, 1, [word |-> None, rem |-> Infinity])

LETTER_PRIORITY ==
    <<"e","a","r","o","t","i","l","s","n","u","c","y","h",
      "d","p","g","m","b","f","k","w","v","x","z","q","j">>

\* [ch for ch in LETTER_PRIORITY if ch not in tested]
UntestedPriority(tested) ==
    SelectSeq(LETTER_PRIORITY, LAMBDA ch : ch \notin tested)

\* sum over the word's unique untested letters of len(untested_priority) - idx
\* (idx 0-based in the source)
UntestedScore(word, tested) ==
    LET up == UntestedPriority(tested)
        S  == {ch \in Range(word) : ch \notin tested /\ ch \in Range(up)}
    IN SumOver(S, [ch \in S |-> Len(up) - (Index(up, ch) - 1)])

\* the weight 100 is put on the positional sum instead of the untested score
PriorityScoreBugSwappedWeight(word, cands, tested) ==
    UntestedScore(word, tested) * Len(cands)
        + 100 * SumOver(Pos, [i \in Pos |-> positional_letter_frequency(cands, i, word[i])])

\* score = untested_score * 100 + SUM_i pos_freq[i][word[i]] / n, represented
\* by n * score, an integer (n is the same for every word of one search)
PriorityScore(word, cands, tested) ==
    UntestedScore(word, tested) * 100 * Len(cands)
        + SumOver(Pos, [i \in Pos |-> positional_letter_frequency(cands, i, word[i])])

\* the scoring loop shared by human_heuristic_guess, improved_human_guess
\* and both improved_guess: first word with the strictly greatest score
RECURSIVE PriorityLoop(_, _, _, _)
PriorityLoop(cands, tested, i, best) ==
    IF i > Len(cands) THEN best.word
    ELSE LET score == PriorityScore(cands[i], cands, tested)
         IN PriorityLoop(cands, tested, i + 1,
                         IF score > best.score
                         THEN [word |-> cands[i], score |-> score]
                         ELSE best)

\* best_score = -1 (times n in the integer representation)
PriorityStart(cands) == [word |-> None, score |-> -Len(cands)]

human_heuristic_guess(cands, tested) ==
    IF Len(cands) <= 2 THEN cands[1]
    ELSE PriorityLoop(cands, tested, 1, PriorityStart(cands))

---------------------------------------------------------------------------
(* improved_strategy.py *)

\* position -> set of letters seen there, for the positions with > 1 letter
find_varying_positions(cands) ==
    LET letters(p) == {cands[k][p] : k \in DOMAIN cands}
    IN [p \in {q \in Pos : Count(letters(q)) > 1} |-> letters(p)]

\* list(varying.keys()): positions in ascending (insertion) order
RECURSIVE KeyList(_)
KeyList(S) ==
    IF S = {} THEN <<>>
    ELSE LET m == CHOOSE x \in S : \A y \in S : x <= y
         IN <<m>> \o KeyList(S \ {m})

\* a near-trap always reports the first of the two varying positions
DetectTrapBugFirstPosition(cands) ==
    LET varying   == find_varying_positions(cands)
        positions == KeyList(DOMAIN varying)
        No        == [is_trap |-> FALSE, pos |-> None, letters |-> None]
    IN IF Count(DOMAIN varying) = 1
       THEN [is_trap |-> TRUE, pos |-> positions[1], letters |-> varying[positions[1]]]
       ELSE IF Count(DOMAIN varying) = 2
       THEN LET s0 == Count(varying[positions[1]])
                s1 == Count(varying[positions[2]])
            IN IF (s0 >= 3 /\ s1 <= 2) \/ (s1 >= 3 /\ s0 <= 2)
               THEN [is_trap |-> TRUE, pos |-> positions[1], letters |-> varying[positions[1]]]
               ELSE No
       ELSE No

detect_one_position_trap(cands) ==
    LET varying   == find_varying_positions(cands)
        positions == KeyList(DOMAIN varying)
        No        == [is_trap |-> FALSE, pos |-> None, letters |-> None]
    IN IF Count(DOMAIN varying) = 1
       THEN [is_trap |-> TRUE, pos |-> positions[1], letters |-> varying[positions[1]]]
       ELSE IF Count(DOMAIN varying) = 2
       THEN LET s0 == Count(varying[positions[1]])
                s1 == Count(varying[positions[2]])
            IN IF s0 >= 3 /\ s1 <= 2
               THEN [is_trap |-> TRUE, pos |-> positions[1], letters |-> varying[positions[1]]]
               ELSE IF s1 >= 3 /\ s0 <= 2
               THEN [is_trap |-> TRUE, pos |-> positions[2], letters |-> varying[positions[2]]]
               ELSE No
       ELSE No

\* coverage counts every occurrence of a target letter, not distinct letters
RECURSIVE DiscriminatorLoopBugOccurrences(_, _, _, _)
DiscriminatorLoopBugOccurrences(cands, target_letters, i, best) ==
    IF i > Len(cands) THEN best.word
    ELSE LET word     == cands[i]
             coverage == Count({k \in Pos : word[k] \in target_letters})
             is_cand  == word \in Range(cands)
         IN DiscriminatorLoopBugOccurrences(cands, target_letters, i + 1,
                IF coverage > best.coverage
                   \/ (coverage = best.coverage /\ is_cand /\ ~best.is_candidate)
                THEN [word |-> word, coverage |-> coverage, is_candidate |-> is_cand]
                ELSE best)

RECURSIVE DiscriminatorLoop(_, _, _, _)
DiscriminatorLoop(cands, target_letters, i, best) ==
    IF i > Len(cands) THEN best.word
    ELSE LET word     == cands[i]
             coverage == Count(target_letters \cap Range(word))
             is_cand  == word \in Range(cands)
         IN DiscriminatorLoop(cands, target_letters, i + 1,
                IF coverage > best.coverage
                   \/ (coverage = best.coverage /\ is_cand /\ ~best.is_candidate)
                THEN [word |-> word, coverage |-> coverage, is_candidate |-> is_cand]
                ELSE best)

find_discriminator(cands, target_pos, target_letters) ==
    DiscriminatorLoop(cands, target_letters, 1,
                      [word |-> None, coverage |-> 0, is_candidate |-> FALSE])

improved_human_guess(cands, tested) ==
    IF Len(cands) <= 2 THEN cands[1]
    ELSE LET trap == detect_one_position_trap(cands)
             disc == IF trap.is_trap /\ Len(cands) >= 4
                     THEN find_discriminator(cands, trap.pos, trap.letters)
                     ELSE None
         IN IF disc # None THEN disc
            ELSE PriorityLoop(cands, tested, 1, PriorityStart(cands))

---------------------------------------------------------------------------
(* strategy_v2.py and final_simulation.py *)

\* first word of cands with the strictly greatest expected information
RECURSIVE FirstMaxInfoLoop(_, _, _)
FirstMaxInfoLoop(cands, i, best) ==
    IF i > Len(cands) THEN best.word
    ELSE LET info == expected_information(cands[i], cands)
         IN FirstMaxInfoLoop(cands, i + 1,
                             IF info > best.info
                             THEN [word |-> cands[i], info |-> info]
                             ELSE best)

FirstMaxInfo(cands) == FirstMaxInfoLoop(cands, 1, [word |-> None, info |-> -1])

\* a bucket of one word gets the first answer instead of its own word
BuildGuess2TableBugFirstAnswer(corpus, first) ==
    LET buckets == partition_by_feedback(first, corpus)
    IN [fb \in DOMAIN buckets |->
          IF Len(buckets[fb]) <= 1 THEN corpus[1]
          ELSE FirstMaxInfo(buckets[fb])]

build_guess2_table(corpus, first) ==
    LET buckets == partition_by_feedback(first, corpus)
    IN [fb \in DOMAIN buckets |->
          IF Len(buckets[fb]) <= 1 THEN buckets[fb][1]
          ELSE FirstMaxInfo(buckets[fb])]

\* score of strategy_v2.improved_guess when at most two positions vary:
\* 1 per varying position whose letter the word holds there, 0.3 per
\* (position, unique letter of the word) with the letter among that
\* position's letters; represented by 10 * score
VaryingScore(word, varying) ==
    SumOver(DOMAIN varying,
            [p \in DOMAIN varying |->
                (IF word[p] \in varying[p] THEN 10 ELSE 0)
                    + 3 * Count(Range(word) \cap varying[p])])

RECURSIVE VaryingLoop(_, _, _, _)
VaryingLoop(cands, varying, i, best) ==
    IF i > Len(cands) THEN best.word
    ELSE LET score == VaryingScore(cands[i], varying)
         IN VaryingLoop(cands, varying, i + 1,
                        IF score > best.score
                        THEN [word |-> cands[i], score |-> score]
                        ELSE best)

\* size up to which the exhaustive entropy search is used
SmallPool == 20

\* strategy_v2.improved_guess
improved_guess(cands, tested) ==
    IF Len(cands) <= 2 THEN cands[1]
    ELSE LET varying == find_varying_positions(cands)
         IN IF Count(DOMAIN varying) <= 2 /\ Len(cands) >= 4
            THEN VaryingLoop(cands, varying, 1, [word |-> None, score |-> -10])
            ELSE IF Len(cands) <= SmallPool
            THEN FirstMaxInfo(cands)
            ELSE PriorityLoop(cands, tested, 1, PriorityStart(cands))

\* final_simulation.improved_guess
final_improved_guess(cands, tested) ==
    IF Len(cands) <= 2 THEN cands[1]
    ELSE IF Len(cands) <= SmallPool
    THEN FirstMaxInfo(cands)
    ELSE PriorityLoop(cands, tested, 1, PriorityStart(cands))

table_a ==
    (<<0, 0, 0, 0, 0>> :> clout) @@
    (<<0, 0, 0, 0, 1>> :> towel) @@
    (<<0, 0, 1, 0, 0>> :> pilot) @@
    (<<1, 0, 0, 0, 0>> :> court) @@
    (<<1, 0, 0, 0, 1>> :> outer) @@
    (<<0, 1, 0, 0, 0>> :> float) @@
    (<<0, 2, 0, 0, 0>> :> tangy) @@
    (<<0, 0, 0, 1, 0>> :> stony) @@
    (<<1, 1, 0, 0, 0>> :> adorn) @@
    (<<0, 1, 0, 0, 1>> :> cleat) @@
    (<<0, 0, 0, 0, 2>> :> lunge) @@
    (<<0, 0, 2, 0, 0>> :> glint)

table_b ==
    (<<0, 0, 0, 0, 0>> :> cloth) @@
    (<<0, 0, 0, 0, 1>> :> olden) @@
    (<<0, 0, 1, 0, 0>> :> pilot) @@
    (<<1, 0, 0, 0, 0>> :> court) @@
    (<<1, 0, 0, 0, 1>> :> deter) @@
    (<<0, 1, 0, 0, 0>> :> float) @@
    (<<0, 2, 0, 0, 0>> :> tangy) @@
    (<<0, 0, 0, 1, 0>> :> stunk) @@
    (<<1, 1, 0, 0, 0>> :> adorn) @@
    (<<0, 1, 0, 0, 1>> :> cleat) @@
    (<<0, 0, 0, 0, 2>> :> lunge) @@
    (<<0, 0, 2, 0, 0>> :> glint)

table_c ==
    (<<0, 0, 0, 0, 0>> :> mulch) @@
    (<<0, 0, 0, 0, 1>> :> olden) @@
    (<<0, 0, 1, 0, 0>> :> pilot) @@
    (<<1, 0, 0, 0, 0>> :> court) @@
    (<<1, 0, 0, 0, 1>> :> deter) @@
    (<<0, 1, 0, 0, 0>> :> float) @@
    (<<0, 2, 0, 0, 0>> :> tangy) @@
    (<<0, 0, 0, 1, 0>> :> stunk) @@
    (<<1, 1, 0, 0, 0>> :> adorn) @@
    (<<0, 1, 0, 0, 1>> :> cleat) @@
    (<<0, 0, 0, 0, 2>> :> lunge) @@
    (<<0, 0, 2, 0, 0>> :> glint)

table_d ==
    (<<0, 0, 0, 0, 0>> :> cloth) @@
    (<<0, 0, 0, 0, 1>> :> olden) @@
    (<<0, 0, 1, 0, 0>> :> pilot) @@
    (<<1, 0, 0, 0, 0>> :> court) @@
    (<<1, 0, 0, 0, 1>> :> deter) @@
    (<<0, 1, 0, 0, 0>> :> float) @@
    (<<0, 2, 0, 0, 0>> :> tangy) @@
    (<<0, 0, 0, 1, 0>> :> stony) @@
    (<<1, 1, 0, 0, 0>> :> adorn) @@
    (<<0, 1, 0, 0, 1>> :> cleat) @@
    (<<0, 0, 0, 0, 2>> :> lunge) @@
    (<<0, 0, 2, 0, 0>> :> glint)

---------------------------------------------------------------------------
(* The game loops *)

\* words the corpora, targets and openers of the model are drawn from: the
\* first NumGameWords of GameLexicon
GameLexicon == <<raise, clout, bumpy, dumpy, jumpy, mummy, lumpy, towel, cloth>>

NumGameWords == 6

GameWords == {GameLexicon[i] : i \in 1..NumGameWords}

\* answers.txt is written sorted and without duplicates (build_answer_list.py)
Corpora == {Sorted(S) : S \in (SUBSET GameWords) \ {{}}}

\* default turn budget of the play_game functions; fixed in simulate
DefaultMaxGuesses == 6

\* largest of the small budgets tried besides the default
MaxBudget == 3

Budgets == (1..MaxBudget) \cup {DefaultMaxGuesses}

Strategies == {"info", "expected_remaining", "human"}

\* a strategy name play_game does not know
UnknownStrategy == "minimax"

FinalTables == {table_a, table_b, table_c, table_d}

GameStart ==
    /\ guess = None
    /\ pool = <<>>
    /\ observed = None
    /\ guess_pool = None
    /\ called = "none"
    /\ ret = None
    /\ candidates = answers
    /\ guesses = <<>>
    /\ tested_letters = {}
    /\ turn = 1
    /\ pc = "playing"
    /\ result = None

InitPlayGame ==
    /\ driver = "play_game"
    /\ answers \in Corpora
    /\ target \in GameWords
    /\ opener \in GameWords
    /\ strategy \in Strategies \cup {UnknownStrategy}
    /\ max_guesses \in Budgets
    /\ guess2_table = EmptyDict
    /\ green_known = [i \in Pos |-> None]
    /\ yellow_known = [i \in Pos |-> {}]
    /\ GameStart

InitPlayGameImproved ==
    /\ driver = "play_game_improved"
    /\ answers \in Corpora
    /\ target \in GameWords
    /\ opener \in GameWords
    /\ strategy = None
    /\ max_guesses \in Budgets
    /\ guess2_table = EmptyDict
    /\ green_known = <<>>
    /\ yellow_known = <<>>
    /\ GameStart

\* the table is the one built from the same corpus and opener (__main__),
\* an empty partial table, or a hand-written one
InitPlayGameV2 ==
    /\ driver = "play_game_v2"
    /\ answers \in Corpora
    /\ target \in GameWords
    /\ opener \in GameWords
    /\ strategy = None
    /\ max_guesses \in Budgets
    /\ guess2_table \in {build_guess2_table(answers, opener), EmptyDict, table_a}
    /\ green_known = <<>>
    /\ yellow_known = <<>>
    /\ GameStart

\* answer lists of simulate: the corpora, and the corpora with two words
\* whose opener feedback (2,0,0,0,1) is in none of the tables
SimCorpora == Corpora \cup {Sorted(Range(c) \cup {rebut, recut}) : c \in Corpora}

\* one pass of the loop "for target in answers" of simulate
InitSimulate ==
    /\ driver = "simulate"
    /\ answers \in SimCorpora
    /\ target \in Range(answers)
    /\ opener = raise
    /\ strategy = None
    /\ max_guesses = DefaultMaxGuesses
    /\ guess2_table \in FinalTables
    /\ green_known = <<>>
    /\ yellow_known = <<>>
    /\ GameStart

InitGame == InitPlayGame \/ InitPlayGameImproved \/ InitPlayGameV2 \/ InitSimulate

\* budget test off by one: the loop runs one pass too many
TurnWithBugBudget(g) ==
    LET feedback == compute_feedback(g, target)
        filtered == filter_candidates(candidates, g, feedback)
    IN /\ guesses' = Append(guesses, <<g, feedback>>)
       /\ tested_letters' = tested_letters \cup Range(g)
       /\ IF feedback = AllCorrect
          THEN /\ pc' = "done"
               /\ result' = [n_guesses |-> turn, solved |-> TRUE]
               /\ UNCHANGED <<candidates, turn>>
          ELSE /\ candidates' = filtered
               /\ IF Len(filtered) = 0
                  THEN /\ pc' = "done"
                       /\ result' = [n_guesses |-> turn, solved |-> FALSE]
                       /\ UNCHANGED turn
                  ELSE IF turn = max_guesses + 1
                  THEN /\ pc' = "done"
                       /\ result' = [n_guesses |-> max_guesses, solved |-> FALSE]
                       /\ UNCHANGED turn
                  ELSE /\ turn' = turn + 1
                       /\ UNCHANGED <<pc, result>>

\* the part of a loop pass after the guess g is chosen, shared by
\* play_game, play_game_improved and play_game_v2: score, record, return
\* when solved, filter, return when no candidate is left or the budget is
\* used up
\* the candidates are left unfiltered after a turn
TurnWithBugNoFilter(g) ==
    LET feedback == compute_feedback(g, target)
    IN /\ guesses' = Append(guesses, <<g, feedback>>)
       /\ tested_letters' = tested_letters \cup Range(g)
       /\ IF feedback = AllCorrect
          THEN /\ pc' = "done"
               /\ result' = [n_guesses |-> turn, solved |-> TRUE]
               /\ UNCHANGED <<candidates, turn>>
          ELSE /\ UNCHANGED candidates
               /\ IF turn = max_guesses
                  THEN /\ pc' = "done"
                       /\ result' = [n_guesses |-> max_guesses, solved |-> FALSE]
                       /\ UNCHANGED turn
                  ELSE /\ turn' = turn + 1
                       /\ UNCHANGED <<pc, result>>

TurnWith(g) ==
    LET feedback == compute_feedback(g, target)
        filtered == filter_candidates(candidates, g, feedback)
    IN /\ guesses' = Append(guesses, <<g, feedback>>)
       /\ tested_letters' = tested_letters \cup Range(g)
       /\ IF feedback = AllCorrect
          THEN /\ pc' = "done"
               /\ result' = [n_guesses |-> turn, solved |-> TRUE]
               /\ UNCHANGED <<candidates, turn>>
          ELSE /\ candidates' = filtered
               /\ IF Len(filtered) = 0
                  THEN /\ pc' = "done"
                       /\ result' = [n_guesses |-> turn, solved |-> FALSE]
                       /\ UNCHANGED turn
                  ELSE IF turn = max_guesses
                  THEN /\ pc' = "done"
                       /\ result' = [n_guesses |-> max_guesses, solved |-> FALSE]
                       /\ UNCHANGED turn
                  ELSE /\ turn' = turn + 1
                       /\ UNCHANGED <<pc, result>>

Fixed == <<driver, answers, opener, strategy, max_guesses, guess2_table,
           target, guess, pool, observed, guess_pool, called, ret>>

\* the opener is played again at turn 2
PlayGameGuessBugOpenerTwice ==
    IF turn <= 2 THEN opener
    ELSE IF strategy = "info" THEN best_guess_by_info(candidates, None)
    ELSE IF strategy = "expected_remaining"
         THEN best_guess_by_expected_remaining(candidates, None)
    ELSE human_heuristic_guess(candidates, tested_letters)

PlayGameGuess ==
    IF turn = 1 THEN opener
    ELSE IF strategy = "info" THEN best_guess_by_info(candidates, None)
    ELSE IF strategy = "expected_remaining"
         THEN best_guess_by_expected_remaining(candidates, None)
    ELSE human_heuristic_guess(candidates, tested_letters)

\* one pass of the loop of play_game
PlayGameTurn ==
    /\ driver = "play_game"
    /\ pc = "playing"
    /\ ~(turn > 1 /\ strategy \notin Strategies)
    /\ LET g  == PlayGameGuess
           fb == compute_feedback(g, target)
       IN /\ TurnWith(g)
          /\ green_known' = [i \in Pos |-> IF fb[i] = 2 THEN g[i] ELSE green_known[i]]
          /\ yellow_known' = [i \in Pos |-> IF fb[i] = 1
                                             THEN yellow_known[i] \cup {g[i]}
                                             ELSE yellow_known[i]]
    /\ UNCHANGED Fixed

\* play_game, turn >= 2, strategy not one of the three: ValueError
PlayGameUnknownStrategy ==
    /\ driver = "play_game"
    /\ pc = "playing"
    /\ turn > 1
    /\ strategy \notin Strategies
    /\ pc' = "raised"
    /\ UNCHANGED <<candidates, guesses, tested_letters, green_known,
                   yellow_known, turn, result>>
    /\ UNCHANGED Fixed

\* one pass of the loop of play_game_improved
PlayGameImprovedTurn ==
    /\ driver = "play_game_improved"
    /\ pc = "playing"
    /\ TurnWith(IF turn = 1 THEN opener
                ELSE improved_human_guess(candidates, tested_letters))
    /\ UNCHANGED <<green_known, yellow_known>>
    /\ UNCHANGED Fixed

\* the table word is played without the membership test
TableGuessV2BugNoFallback ==
    LET prev_fb == guesses[Len(guesses)][2]
        looked  == IF prev_fb \in DOMAIN guess2_table
                   THEN guess2_table[prev_fb] ELSE None
    IN IF looked = None
       THEN improved_guess(candidates, tested_letters)
       ELSE looked

\* guess2_table.get(prev_fb), then the fallback test of play_game_v2
TableGuessV2 ==
    LET prev_fb == guesses[Len(guesses)][2]
        looked  == IF prev_fb \in DOMAIN guess2_table
                   THEN guess2_table[prev_fb] ELSE None
    IN IF looked = None \/ looked \notin Range(candidates)
       THEN improved_guess(candidates, tested_letters)
       ELSE looked

\* one pass of the loop of play_game_v2
PlayGameV2Turn ==
    /\ driver = "play_game_v2"
    /\ pc = "playing"
    /\ TurnWith(IF turn = 1 THEN opener
                ELSE IF turn = 2 THEN TableGuessV2
                ELSE improved_guess(candidates, tested_letters))
    /\ UNCHANGED <<green_known, yellow_known>>
    /\ UNCHANGED Fixed

\* a missing key falls back to the table's all-gray entry
TableGuessFinalBugDefaultEntry ==
    LET prev_fb == guesses[Len(guesses)][2]
    IN IF prev_fb \in DOMAIN guess2_table
       THEN guess2_table[prev_fb]
       ELSE guess2_table[<<0, 0, 0, 0, 0>>]

\* turn 2 of simulate: the table word whenever the table has the key
TableGuessFinal ==
    LET prev_fb == guesses[Len(guesses)][2]
    IN IF prev_fb \in DOMAIN guess2_table
       THEN guess2_table[prev_fb]
       ELSE final_improved_guess(candidates, tested_letters)

\* one pass of the inner loop of simulate; after the last pass of an
\* unsolved game results.append(6)
SimulateTurn ==
    /\ driver = "simulate"
    /\ pc = "playing"
    /\ LET g  == IF turn = 1 THEN raise
                 ELSE IF turn = 2 THEN TableGuessFinal
                 ELSE final_improved_guess(candidates, tested_letters)
           fb == compute_feedback(g, target)
       IN /\ guesses' = Append(guesses, <<g, fb>>)
          /\ tested_letters' = tested_letters \cup Range(g)
          /\ IF fb = AllCorrect
             THEN /\ pc' = "done"
                  /\ result' = [n_guesses |-> turn, solved |-> TRUE]
                  /\ UNCHANGED <<candidates, turn>>
             ELSE /\ candidates' = filter_candidates(candidates, g, fb)
                  /\ IF turn = DefaultMaxGuesses
                     THEN /\ pc' = "done"
                          /\ result' = [n_guesses |-> DefaultMaxGuesses, solved |-> FALSE]
                          /\ UNCHANGED turn
                     ELSE /\ turn' = turn + 1
                          /\ UNCHANGED <<pc, result>>
    /\ UNCHANGED <<green_known, yellow_known>>
    /\ UNCHANGED Fixed

NextGame ==
    \/ PlayGameTurn
    \/ PlayGameUnknownStrategy
    \/ PlayGameImprovedTurn
    \/ PlayGameV2Turn
    \/ SimulateTurn

SpecGame == InitGame /\ [][NextGame]_vars

---------------------------------------------------------------------------
(* Claims about the game loops *)

\* the games of play_game (with one of its three strategies),
\* play_game_improved and play_game_v2
HardModeGame ==
    /\ driver \in {"play_game", "play_game_improved", "play_game_v2"}
    /\ driver = "play_game" => strategy \in Strategies

TargetInCorpus == target \in Range(answers)

\* C7: for every target of the corpus and every strategy the game reaches a
\* terminal outcome after at most max_guesses turns: a running game has
\* played fewer than max_guesses turns (every loop pass adds one pair to the
\* trace), so after max_guesses turns it has returned; when solved, the turn
\* count is the index of the first all-Correct feedback and the trace has
\* exactly that many pairs.
C7_Termination ==
    (HardModeGame /\ TargetInCorpus) =>
        /\ Len(guesses) <= max_guesses
        /\ pc \in {"playing", "done"}
        /\ pc = "playing" =>
              /\ Len(guesses) < max_guesses
              /\ turn = Len(guesses) + 1
        /\ pc = "done" =>
              /\ result.n_guesses <= max_guesses
              /\ result.solved =>
                    /\ result.n_guesses = Len(guesses)
                    /\ guesses[result.n_guesses][2] = AllCorrect
                    /\ \A j \in 1..(result.n_guesses - 1) : guesses[j][2] # AllCorrect
              /\ ~result.solved =>
                    \A j \in 1..Len(guesses) : guesses[j][2] # AllCorrect

\* a game solved at its third turn
C7_Witness ==
    /\ HardModeGame /\ TargetInCorpus
    /\ pc = "done"
    /\ result.n_guesses = 3
    /\ Len(guesses) = 3
    /\ result.solved

\* C8: when the target is in the corpus the candidate list holds it at the
\* start and after every filter step, so it is never empty.
C8_TargetStaysCandidate ==
    (TargetInCorpus /\ pc \in {"playing", "done", "raised"}) =>
        /\ target \in Range(candidates)
        /\ Len(candidates) > 0

\* two filter steps have shrunk the list and the target is still in it
C8_Witness ==
    /\ TargetInCorpus
    /\ driver = "play_game"
    /\ pc = "playing"
    /\ Len(guesses) >= 2
    /\ Len(candidates) < Len(answers)
    /\ target \in Range(candidates)

FiveDistinct(w) == Count(Range(w)) = WordLen

\* C9: the candidate list starts as the corpus and never grows; once a
\* guess with five distinct letters has been played, no later non-solving
\* turn leaves its size unchanged.
C9_ShrinksAfterDistinctGuess ==
    [][ pc = "playing" =>
          /\ guesses = <<>> => candidates = answers
          /\ Range(candidates') \subseteq Range(candidates)
          /\ Len(candidates') <= Len(candidates)
          /\ ( /\ \E j \in 1..Len(guesses) : FiveDistinct(guesses[j][1])
               /\ Len(guesses') = Len(guesses) + 1
               /\ guesses'[Len(guesses')][2] # AllCorrect )
             => Len(candidates') < Len(candidates) ]_vars

\* C10: in play_game (three strategies), play_game_improved and
\* play_game_v2 every guess of turn n >= 2 is consistent with every earlier
\* (guess, feedback) pair of the trace.
C10_HardMode ==
    HardModeGame =>
        \A n \in 2..Len(guesses) : \A j \in 1..(n - 1) :
            compute_feedback(guesses[j][1], guesses[n][1]) = guesses[j][2]

\* a play_game_v2 game that played a table word at turn 2 and a third guess
C10_Witness ==
    /\ driver = "play_game_v2"
    /\ Len(guesses) >= 3
    /\ guesses[1][2] \in DOMAIN guess2_table
    /\ guesses[2][1] = guess2_table[guesses[1][2]]
    /\ guesses[2][2] # AllCorrect

\* C13: play_game with a strategy name outside {"info",
\* "expected_remaining", "human"} never returns a game result.
C13_UnknownStrategyNeverReturns ==
    (driver = "play_game" /\ strategy \notin Strategies) => pc # "done"

\* C14: a game aborted on an empty candidate list returns a result that
\* differs from the result of a budget-exhausted failure, which is
\* (max_guesses, guesses, False).
C14_AbortDistinctFromBudgetFailure ==
    (driver = "play_game" /\ pc = "done" /\ Len(candidates) = 0) =>
        result # [n_guesses |-> max_guesses, solved |-> FALSE]

\* C15: whenever play_game returns solved == False, the returned n_guesses
\* equals max_guesses.
C15_UnsolvedCountsBudget ==
    (driver = "play_game" /\ pc = "done" /\ ~result.solved) =>
        result.n_guesses = max_guesses

\* the guess the fallback heuristic of the driver gives at turn 2
FallbackAtTurn2 ==
    LET c2 == filter_candidates(answers, opener, guesses[1][2])
    IN IF driver = "play_game_v2"
       THEN improved_guess(c2, Range(opener))
       ELSE final_improved_guess(c2, Range(opener))

\* the table has a word for the opener's feedback and the word is
\* hard-mode-legal for it
TableWordLegal ==
    /\ guesses[1][2] \in DOMAIN guess2_table
    /\ compute_feedback(opener, guess2_table[guesses[1][2]]) = guesses[1][2]

\* C22: in play_game_v2 and simulate the turn-2 guess is the table word
\* only if that word is hard-mode-legal for the opener's feedback; without
\* an entry, or with a word that is not legal, it is the fallback guess.
C22_TableWordOnlyIfLegal ==
    (driver \in {"play_game_v2", "simulate"} /\ Len(guesses) >= 2) =>
        /\ guesses[2][1] # FallbackAtTurn2 =>
              TableWordLegal /\ guesses[2][1] = guess2_table[guesses[1][2]]
        /\ ~TableWordLegal => guesses[2][1] = FallbackAtTurn2

\* simulate without a table entry for the opener's feedback: the fallback
\* guess has been played
C22_Witness ==
    /\ driver = "simulate"
    /\ Len(guesses) >= 2
    /\ guesses[1][2] \notin DOMAIN guess2_table
    /\ guesses[2][1] = FallbackAtTurn2

\* the candidate list when the guess of turn k is chosen: the answers
\* filtered by the first k - 1 guesses and their feedback
RECURSIVE CandidatesAt(_)
CandidatesAt(k) ==
    IF k = 1 THEN answers
    ELSE filter_candidates(CandidatesAt(k - 1), guesses[k - 1][1], guesses[k - 1][2])

\* the letters tested when the guess of turn k is chosen
TestedAt(k) == UNION {Range(guesses[j][1]) : j \in 1..(k - 1)}

\* rank weight of an untested letter: the number of untested letters at or
\* after it in the priority order
RankWeight(ch, tested) ==
    Count({k \in DOMAIN LETTER_PRIORITY :
              /\ k >= Index(LETTER_PRIORITY, ch)
              /\ LETTER_PRIORITY[k] \notin tested})

\* untested-letter score of a word: its unique untested letters' weights
UntestedLetterScore(w, tested) ==
    SumOver(Range(w) \ tested, [ch \in Range(w) \ tested |-> RankWeight(ch, tested)])

\* C23: with 3 or more candidates human_heuristic_guess returns a candidate
\* whose untested-letter score is maximal among all candidates, whatever
\* the positional-frequency sums are.
C23_UntestedScoreDominates ==
    (driver = "play_game" /\ strategy = "human") =>
        \A k \in 2..Len(guesses) :
            Len(CandidatesAt(k)) >= 3 =>
                /\ guesses[k][1] \in Range(CandidatesAt(k))
                /\ \A w \in Range(CandidatesAt(k)) :
                      UntestedLetterScore(w, TestedAt(k))
                          <= UntestedLetterScore(guesses[k][1], TestedAt(k))

\* the heuristic chose, among 3 or more candidates, a word that some
\* candidate with a strictly lower untested-letter score beats on the
\* positional-frequency sum
C23_Witness ==
    /\ driver = "play_game" /\ strategy = "human"
    /\ Len(guesses) >= 2
    /\ Len(CandidatesAt(2)) >= 3
    /\ \E w \in Range(CandidatesAt(2)) :
          /\ UntestedLetterScore(w, TestedAt(2))
                < UntestedLetterScore(guesses[2][1], TestedAt(2))
          /\ SumOver(Pos, [i \in Pos |->
                 positional_letter_frequency(CandidatesAt(2), i, w[i])])
                > SumOver(Pos, [i \in Pos |->
                      positional_letter_frequency(CandidatesAt(2), i, guesses[2][1][i])])

\* number of distinct letters of the set the word contains anywhere
Coverage(w, letters) == Count(Range(w) \cap letters)

\* C25: when a one-position trap is detected over at least 4 candidates,
\* improved_human_guess returns a candidate containing the largest number
\* of distinct letters of the disputed position's letter set among all
\* candidates; find_discriminator does not return None.
C25_DiscriminatorCoversMost ==
    driver = "play_game_improved" =>
        \A k \in 2..Len(guesses) :
            LET c    == CandidatesAt(k)
                trap == detect_one_position_trap(c)
            IN (Len(c) >= 4 /\ trap.is_trap) =>
                  /\ find_discriminator(c, trap.pos, trap.letters) # None
                  /\ guesses[k][1] = find_discriminator(c, trap.pos, trap.letters)
                  /\ guesses[k][1] \in Range(c)
                  /\ \A w \in Range(c) :
                        Coverage(w, trap.letters) <= Coverage(guesses[k][1], trap.letters)

\* a trap over 4 candidates where the discriminator differs from the word
\* the generic letter-priority scoring would give, and one candidate covers
\* fewer of the disputed letters
C25_Witness ==
    /\ driver = "play_game_improved"
    /\ Len(guesses) >= 2
    /\ Len(CandidatesAt(2)) >= 4
    /\ detect_one_position_trap(CandidatesAt(2)).is_trap
    /\ guesses[2][1] # PriorityLoop(CandidatesAt(2), TestedAt(2), 1,
                                    PriorityStart(CandidatesAt(2)))
    /\ \E w \in Range(CandidatesAt(2)) :
          Coverage(w, detect_one_position_trap(CandidatesAt(2)).letters)
              < Coverage(guesses[2][1], detect_one_position_trap(CandidatesAt(2)).letters)

\* C26: no word is guessed twice within one game, in play_game,
\* play_game_improved, play_game_v2 and simulate.
C26_NoRepeatedGuess ==
    \A j \in 1..Len(guesses) : \A i \in 1..(j - 1) :
        guesses[i][1] # guesses[j][1]

\* a simulate game of at least four turns whose turn-2 table word was not
\* a candidate
C26_Witness ==
    /\ driver = "simulate"
    /\ Len(guesses) >= 4
    /\ guesses[2][1] \notin Range(CandidatesAt(2))

\* C27: in play_game and play_game_improved with a target of the corpus, if
\* at most 2 candidates are left when the guess of turn n is chosen
\* (2 <= n <= max_guesses - 1), the game is solved at turn n or n + 1: it
\* has returned solved with n guesses, or it is about to play turn n + 1
\* with the target as only candidate, or it has returned solved with n + 1.
C27_SolvedWithinTwoTurns ==
    (/\ driver \in {"play_game", "play_game_improved"}
     /\ driver = "play_game" => strategy \in Strategies
     /\ TargetInCorpus) =>
        \A n \in 2..Len(guesses) :
            (n <= max_guesses - 1 /\ Len(CandidatesAt(n)) <= 2) =>
                \/ /\ Len(guesses) = n
                   /\ guesses[n][2] = AllCorrect
                   /\ pc = "done" /\ result = [n_guesses |-> n, solved |-> TRUE]
                \/ /\ Len(guesses) = n
                   /\ pc = "playing" /\ turn = n + 1
                   /\ candidates = <<target>>
                \/ /\ Len(guesses) = n + 1
                   /\ guesses[n + 1][2] = AllCorrect
                   /\ pc = "done" /\ result = [n_guesses |-> n + 1, solved |-> TRUE]

\* two candidates at turn 2, the first of them not the target, solved at
\* turn 3
C27_Witness ==
    /\ driver = "play_game"
    /\ strategy \in Strategies
    /\ TargetInCorpus
    /\ Len(guesses) = 3
    /\ Len(CandidatesAt(2)) = 2
    /\ guesses[2][2] # AllCorrect
    /\ pc = "done" /\ result = [n_guesses |-> 3, solved |-> TRUE]

\* play_game_v2 with the table built from its own answers and opener
BuiltTableGame ==
    /\ driver = "play_game_v2"
    /\ guess2_table = build_guess2_table(answers, opener)

\* every table entry is a member of its own opener-feedback bucket, and a
\* turn 2 played for a target of the answers plays the table word, which
\* is a candidate (the fallback is not taken)
TableWordPlayed ==
    /\ \A fb \in DOMAIN guess2_table :
          guess2_table[fb] \in Range(partition_by_feedback(opener, answers)[fb])
    /\ (TargetInCorpus /\ Len(guesses) >= 2) =>
          /\ guesses[1][2] \in DOMAIN guess2_table
          /\ guesses[2][1] = guess2_table[guesses[1][2]]
          /\ guesses[2][1] \in Range(CandidatesAt(2))

\* the opener bucket of the target holds the target alone
SingletonBucket ==
    /\ TargetInCorpus
    /\ filter_candidates(answers, opener, compute_feedback(opener, target)) = <<target>>

SolvedByTurn2 == result.solved /\ result.n_guesses <= 2

\* C29 as stated: with the table built from the same answers and opener,
\* every entry is in its own bucket, turn 2 plays the table word, and every
\* target with a singleton opener bucket is solved by turn 2.
C29_BuiltTableAnyBudget ==
    BuiltTableGame =>
        /\ TableWordPlayed
        /\ (SingletonBucket /\ pc = "done") => SolvedByTurn2

\* C29 amended: the same, the last part for a budget of at least 2 turns.
C29_BuiltTable ==
    BuiltTableGame =>
        /\ TableWordPlayed
        /\ (SingletonBucket /\ pc = "done" /\ max_guesses >= 2) => SolvedByTurn2
        /\ (SingletonBucket /\ pc = "done" /\ max_guesses = 1 /\ opener # target) =>
              ~result.solved

\* a target alone in its opener bucket, beside a larger bucket, solved at
\* turn 2 by the table word
C29_Witness ==
    /\ BuiltTableGame
    /\ SingletonBucket
    /\ Count(DOMAIN guess2_table) >= 2
    /\ Len(answers) >= 4
    /\ pc = "done"
    /\ result = [n_guesses |-> 2, solved |-> TRUE]
    /\ guesses[2][1] = guess2_table[guesses[1][2]]

---------------------------------------------------------------------------
(* Partitioner against constraint filter *)

\* the bucket of a partition under a feedback value, empty without the key
BucketOf(buckets, fb) == IF fb \in DOMAIN buckets THEN buckets[fb] ELSE <<>>

\* C28: for every guess, candidate list and feedback value fb, the
\* partition has the key fb exactly when the filter result for fb is
\* non-empty, and then the bucket is the filter result, same words in the
\* same order.
C28_PartitionAgreesWithFilter ==
    /\ called = "partition_by_feedback" =>
          /\ \A fb \in DOMAIN ret \cup {observed} :
                /\ fb \in DOMAIN ret <=> Len(filter_candidates(pool, guess, fb)) > 0
                /\ BucketOf(ret, fb) = filter_candidates(pool, guess, fb)
    /\ called = "filter_candidates" =>
          ret = BucketOf(partition_by_feedback(guess, pool), observed)

\* a partition with a bucket of two different words under the feedback
\* value at hand, and another bucket
C28_Witness ==
    /\ called = "partition_by_feedback"
    /\ observed \in DOMAIN ret
    /\ Len(ret[observed]) = 2
    /\ ret[observed][1] # ret[observed][2]
    /\ Count(DOMAIN ret) = 2

---------------------------------------------------------------------------
(* Symmetry of compute_feedback *)

\* the two words hold every letter the same number of times
SameMultiset(a, b) ==
    \A ch \in Range(a) \cup Range(b) :
        Count({i \in Pos : a[i] = ch}) = Count({i \in Pos : b[i] = ch})

\* C17 as stated: words with different letter multisets never give the
\* same feedback in both directions.
C17_AsymmetricWheneverMultisetsDiffer ==
    (called = "compute_feedback" /\ ~SameMultiset(guess, target)) =>
        ret # compute_feedback(target, guess)

\* C17 amended: feedback is not symmetric in general ("sassy" and "class"
\* differ in the two directions), and the two directions can differ only
\* for words with different letter multisets: words with the same letter
\* multiset give the same feedback in both directions.
C17_SymmetricOnSameMultiset ==
    called = "compute_feedback" =>
        /\ SameMultiset(guess, target) => ret = compute_feedback(target, guess)
        /\ (guess = sassy /\ target = class) => ret # compute_feedback(target, guess)

\* two different arrangements of one multiset, with greens and yellows
C17_Witness ==
    /\ called = "compute_feedback"
    /\ guess # target
    /\ SameMultiset(guess, target)
    /\ \E i \in Pos : ret[i] = 1
    /\ \E i \in Pos : ret[i] = 2
    /\ ret = compute_feedback(target, guess)

---------------------------------------------------------------------------
(* Scorer: one call of a metric of analysis.py on a bounded input *)

\* the exception max() raises on an empty sequence
ValueError == "ValueError"

\* max(len(b) for b in buckets.values()): the outcome of the call, either
\* the exception raised or the value returned
worst_case_remaining(g, cands) ==
    LET buckets == partition_by_feedback(g, cands)
        sizes   == {Len(buckets[fb]) : fb \in DOMAIN buckets}
    IN IF sizes = {}
       THEN [raised |-> ValueError]
       ELSE [raised |-> None,
             value  |-> CHOOSE m \in sizes : \A x \in sizes : x <= m]

\* the value expected_remaining returns, as an exact fraction: 0.0 for
\* n <= 1, else (SUM |b|^2) / n
ExpectedRemainingFraction(g, cands) ==
    [num |-> expected_remaining(g, cands),
     den |-> IF Len(cands) <= 1 THEN 1 ELSE Len(cands)]

abcde == <<"a","b","c","d","e">>
abcxy == <<"a","b","c","x","y">>
zbcde == <<"z","b","c","d","e">>
zzzzz == <<"z","z","z","z","z">>

\* the synthetic 4-word corpus of the end-to-end scenario
ExampleCorpus == <<abcde, abcxy, zbcde, zzzzz>>

InitScorer ==
    /\ \/ guess \in PoolWords /\ pool \in Pools
       \/ guess = abcde /\ pool = ExampleCorpus
    /\ target = None
    /\ observed = None
    /\ guess_pool = None
    /\ called = "none"
    /\ ret = None
    /\ IdleGame

CallExpectedInformation ==
    /\ called = "none"
    /\ observed = None
    /\ called' = "expected_information"
    /\ ret' = expected_information(guess, pool)
    /\ UNCHANGED <<guess, target, pool, observed, guess_pool>>
    /\ UNCHANGED gameVars

CallExpectedRemaining ==
    /\ called = "none"
    /\ observed = None
    /\ called' = "expected_remaining"
    /\ ret' = ExpectedRemainingFraction(guess, pool)
    /\ UNCHANGED <<guess, target, pool, observed, guess_pool>>
    /\ UNCHANGED gameVars

CallWorstCaseRemaining ==
    /\ called = "none"
    /\ observed = None
    /\ called' = "worst_case_remaining"
    /\ ret' = worst_case_remaining(guess, pool)
    /\ UNCHANGED <<guess, target, pool, observed, guess_pool>>
    /\ UNCHANGED gameVars

NextScorer ==
    \/ CallPartition
    \/ CallExpectedInformation
    \/ CallExpectedRemaining
    \/ CallWorstCaseRemaining

SpecScorer == InitScorer /\ [][NextScorer]_vars

\* size of the bucket pool[i] falls into, counted on the candidate list
BucketSizeOf(i) ==
    Count({k \in DOMAIN pool :
              compute_feedback(guess, pool[k]) = compute_feedback(guess, pool[i])})

\* SUM |bucket|^2: every candidate contributes the size of its bucket
SumSquaredBuckets ==
    SumOver(DOMAIN pool, [i \in DOMAIN pool |-> BucketSizeOf(i)])

OneSingleBucket ==
    \A i \in DOMAIN pool : \A k \in DOMAIN pool :
        compute_feedback(guess, pool[i]) = compute_feedback(guess, pool[k])

\* n * expected_remaining = SUM |bucket|^2, and expected_remaining <= n with
\* equality only for one single bucket, for the returned fraction num/den
RemainingIdentity ==
    LET n == Len(pool) IN
    /\ n * ret.num = SumSquaredBuckets * ret.den
    /\ ret.num <= n * ret.den
    /\ (ret.num = n * ret.den) => OneSingleBucket

IsBits(key, n, bits) == (n ^ n - key) * 2 ^ (n * bits) = n ^ n

\* C12: for the corpus {abcde, abcxy, zbcde, zzzzz} and the guess abcde the
\* partition is four singleton buckets under all-Correct, 3 Correct + 2
\* Absent, 1 Absent + 4 Correct and all-Absent, and the expected
\* information is exactly 2 bits.
C12_ExampleScenario ==
    (guess = abcde /\ pool = ExampleCorpus) =>
        /\ called = "partition_by_feedback" =>
              ret = (<<2, 2, 2, 2, 2>> :> <<abcde>>) @@
                    (<<2, 2, 2, 0, 0>> :> <<abcxy>>) @@
                    (<<0, 2, 2, 2, 2>> :> <<zbcde>>) @@
                    (<<0, 0, 0, 0, 0>> :> <<zzzzz>>)
        /\ called = "expected_information" => IsBits(ret, Len(pool), 2)
        /\ called = "expected_remaining" => ret.num = ret.den

\* the scenario's partition has been computed
C12_Witness ==
    /\ guess = abcde /\ pool = ExampleCorpus
    /\ called = "partition_by_feedback"
    /\ Count(DOMAIN ret) = 4

\* C16: for a candidate list of at most one word, the empty list included,
\* expected_information and expected_remaining return 0 and
\* worst_case_remaining returns the list's size.
C16_TrivialOnSmallLists ==
    Len(pool) <= 1 =>
        /\ called = "expected_information" => ret = 0
        /\ called = "expected_remaining" => ret.num = 0
        /\ called = "worst_case_remaining" =>
              ret.raised = None /\ ret.value = Len(pool)

---------------------------------------------------------------------------
(* generate_raise_012_optimal_list.py *)

OPENER == raise

TARGET_HIT_COUNTS == {0, 1, 2}

\* sum(fb)
SumFeedback(fb) == fb[1] + fb[2] + fb[3] + fb[4] + fb[5]

\* a < b for two feedback tuples (tuple.__lt__)
FeedbackLess(a, b) ==
    \E i \in Pos : /\ \A j \in Pos : j < i => a[j] = b[j]
                   /\ a[i] < b[i]

\* the sort key (-len(buckets[fb]), fb) of a before that of b
PatternBefore(buckets, a, b) ==
    \/ Len(buckets[a]) > Len(buckets[b])
    \/ Len(buckets[a]) = Len(buckets[b]) /\ FeedbackLess(a, b)

\* S sorted by the key (-len(buckets[fb]), fb)
RECURSIVE SortPatterns(_, _)
SortPatterns(S, buckets) ==
    IF S = {} THEN <<>>
    ELSE LET m == CHOOSE x \in S : \A y \in S : y = x \/ PatternBefore(buckets, x, y)
         IN <<m>> \o SortPatterns(S \ {m}, buckets)

\* the list target_patterns of main
target_patterns(buckets) ==
    SortPatterns({fb \in DOMAIN buckets :
                     SumFeedback(fb) \in TARGET_HIT_COUNTS /\ Len(buckets[fb]) > 1},
                 buckets)

\* the last comparison, guess < best_word, is left out: the first listed of
\* the fully tied words stays
RECURSIVE BestSecondLoopBugNoWordOrder(_, _, _, _)
BestSecondLoopBugNoWordOrder(cands, valid_guesses, i, best) ==
    IF i > Len(valid_guesses) THEN best
    ELSE LET g            == valid_guesses[i]
             exp_rem      == expected_remaining(g, cands)
             info         == expected_information(g, cands)
             is_candidate == g \in Range(cands)
             taken == [best_word |-> g, best_exp_rem |-> exp_rem,
                       best_info |-> info, best_is_candidate |-> is_candidate]
         IN BestSecondLoopBugNoWordOrder(cands, valid_guesses, i + 1,
                IF exp_rem < best.best_exp_rem THEN taken
                ELSE IF exp_rem # best.best_exp_rem THEN best
                ELSE IF info > best.best_info THEN taken
                ELSE IF info # best.best_info THEN best
                ELSE IF is_candidate /\ ~best.best_is_candidate THEN taken
                ELSE best)

\* the loop of best_second_guess over valid_guesses[i..]
RECURSIVE BestSecondLoop(_, _, _, _)
BestSecondLoop(cands, valid_guesses, i, best) ==
    IF i > Len(valid_guesses) THEN best
    ELSE LET g            == valid_guesses[i]
             exp_rem      == expected_remaining(g, cands)
             info         == expected_information(g, cands)
             is_candidate == g \in Range(cands)
             taken == [best_word |-> g, best_exp_rem |-> exp_rem,
                       best_info |-> info, best_is_candidate |-> is_candidate]
         IN BestSecondLoop(cands, valid_guesses, i + 1,
                IF exp_rem < best.best_exp_rem THEN taken
                ELSE IF exp_rem # best.best_exp_rem THEN best
                ELSE IF info > best.best_info THEN taken
                ELSE IF info # best.best_info THEN best
                ELSE IF is_candidate /\ ~best.best_is_candidate THEN taken
                ELSE IF is_candidate = best.best_is_candidate
                        /\ WordLess(g, best.best_word)
                     THEN [best EXCEPT !.best_word = g]
                ELSE best)

best_second_guess(cands, valid_guesses) ==
    BestSecondLoop(cands, valid_guesses, 1,
                   [best_word |-> None, best_exp_rem |-> Infinity,
                    best_info |-> -1, best_is_candidate |-> FALSE])

handy == <<"h","a","n","d","y">>
noise == <<"n","o","i","s","e">>
poise == <<"p","o","i","s","e">>

\* words the answer lists of the generator are drawn from: the first
\* NumTableWords of TableLexicon
TableLexicon == <<bumpy, dumpy, rebut, recut, tangy, handy, noise, poise, jumpy>>

NumTableWords == 8

TableWords == {TableLexicon[i] : i \in 1..NumTableWords}

\* pool is answers.txt, guess_pool the list --guess-pool selects: the
\* answers or all valid guesses (both files are written sorted)
InitTable ==
    /\ guess = OPENER
    /\ pool \in {Sorted(S) : S \in SUBSET TableWords}
    /\ guess_pool \in {pool, Sorted(TableWords)}
    /\ target = None
    /\ observed = None
    /\ called = "none"
    /\ ret = None
    /\ IdleGame

\* main up to its loop: the partition and the patterns to process
MainStart ==
    /\ called = "none"
    /\ guess = OPENER
    /\ called' = "main"
    /\ LET buckets == partition_by_feedback(OPENER, pool)
       IN ret' = [buckets         |-> buckets,
                  target_patterns |-> target_patterns(buckets),
                  results         |-> <<>>]
    /\ UNCHANGED <<guess, target, pool, observed, guess_pool>>
    /\ UNCHANGED gameVars

\* one pass of the loop of main over target_patterns
MainLoop ==
    /\ called = "main"
    /\ Len(ret.results) < Len(ret.target_patterns)
    /\ LET fb            == ret.target_patterns[Len(ret.results) + 1]
           cands         == ret.buckets[fb]
           valid_guesses == filter_candidates(guess_pool, OPENER, fb)
           best          == best_second_guess(cands, valid_guesses)
       IN ret' = [ret EXCEPT !.results =
                     Append(@, <<fb, Len(cands), best.best_word,
                                 best.best_exp_rem, best.best_info>>)]
    /\ UNCHANGED <<guess, target, pool, observed, guess_pool, called>>
    /\ UNCHANGED gameVars

NextTable ==
    \/ MainStart
    \/ MainLoop

SpecTable == InitTable /\ [][NextTable]_vars

\* number of non-gray tiles of a pattern, green and yellow each counted once
NonGray(fb) == Count({i \in Pos : fb[i] # 0})

\* C18: the processed patterns are exactly the opener's feedback patterns
\* with 0, 1 or 2 non-gray tiles and a bucket of more than one candidate.
C18_ProcessedPatternsExact ==
    called = "main" =>
        Range(ret.target_patterns) =
            {fb \in DOMAIN partition_by_feedback(OPENER, pool) :
                /\ NonGray(fb) <= 2
                /\ Len(partition_by_feedback(OPENER, pool)[fb]) > 1}

---------------------------------------------------------------------------
(* Selectors: one call of best_guess_by_info / best_guess_by_expected_remaining *)

\* the exception candidates[0] raises on an empty list
IndexError == "IndexError"

abbey == <<"a","b","b","e","y">>
badly == <<"b","a","d","l","y">>

\* words the candidate lists and guess pools are drawn from: the first
\* NumSelectWords of SelectLexicon
SelectLexicon == <<bumpy, dumpy, jumpy, abbey, badly, lumpy>>

NumSelectWords == 5

SelectWords == {SelectLexicon[i] : i \in 1..NumSelectWords}

\* longest candidate list
MaxCands == 3

\* longest valid_guesses list
MaxGuessPool == 2

\* lists of distinct words, in every order, up to n long
RECURSIVE DistinctLists(_)
DistinctLists(n) ==
    IF n = 0 THEN {<<>>}
    ELSE LET shorter == DistinctLists(n - 1)
         IN shorter \cup
            {Append(p[1], p[2]) :
                p \in {q \in shorter \X SelectWords :
                          Len(q[1]) = n - 1 /\ q[2] \notin Range(q[1])}}

\* candidates and valid_guesses (if given) in every order
InitSelect ==
    /\ pool \in DistinctLists(MaxCands)
    /\ \/ guess_pool = None
       \/ guess_pool \in DistinctLists(MaxGuessPool)
    /\ guess = None
    /\ target = None
    /\ observed = None
    /\ called = "none"
    /\ ret = None
    /\ IdleGame

CallBestGuessByInfo ==
    /\ called = "none"
    /\ guess = None
    /\ called' = "best_guess_by_info"
    /\ ret' = IF Len(pool) = 0 THEN [raised |-> IndexError]
              ELSE [raised |-> None, value |-> best_guess_by_info(pool, guess_pool)]
    /\ UNCHANGED <<guess, target, pool, observed, guess_pool>>
    /\ UNCHANGED gameVars

CallBestGuessByExpectedRemaining ==
    /\ called = "none"
    /\ guess = None
    /\ called' = "best_guess_by_expected_remaining"
    /\ ret' = IF Len(pool) = 0 THEN [raised |-> IndexError]
              ELSE [raised |-> None,
                    value  |-> best_guess_by_expected_remaining(pool, guess_pool)]
    /\ UNCHANGED <<guess, target, pool, observed, guess_pool>>
    /\ UNCHANGED gameVars

\* both selectors on the same arguments: ret holds the two outcomes
CallBothSelectors ==
    /\ called = "best_guess_by_info"
    /\ called' = "both"
    /\ ret' = [by_info |-> ret,
               by_expected_remaining |->
                   IF Len(pool) = 0 THEN [raised |-> IndexError]
                   ELSE [raised |-> None,
                         value  |-> best_guess_by_expected_remaining(pool, guess_pool)]]
    /\ UNCHANGED <<guess, target, pool, observed, guess_pool>>
    /\ UNCHANGED gameVars

NextSelect ==
    \/ CallBestGuessByInfo
    \/ CallBestGuessByExpectedRemaining
    \/ CallBothSelectors

SpecSelect == InitSelect /\ [][NextSelect]_vars

\* the pool a selector searches: valid_guesses if given, else the candidates
Searched == IF Truthy(guess_pool) THEN guess_pool ELSE pool

\* the words of the searched pool with maximal expected information
MaxInfoWords ==
    {w \in Range(Searched) :
        \A v \in Range(Searched) :
            expected_information(v, pool) <= expected_information(w, pool)}

\* the words of the searched pool with minimal expected remaining
MinRemainingWords ==
    {w \in Range(Searched) :
        \A v \in Range(Searched) :
            expected_remaining(w, pool) <= expected_remaining(v, pool)}

\* the tied words the policy prefers: the candidates among them, if any
Preferred(tied) ==
    IF tied \cap Range(pool) # {} THEN tied \cap Range(pool) ELSE tied

LexSmallest(S) == CHOOSE x \in S : \A y \in S : y = x \/ WordLess(x, y)

\* C19: best_guess_by_info returns a word of the searched pool with maximal
\* expected information, a candidate if one is tied at the maximum, and
\* among those the lexicographically smallest, whatever the listing order.
C19_InfoArgmaxLexicographic ==
    called = "best_guess_by_info" =>
        /\ ret.raised = None
        /\ ret.value \in MaxInfoWords
        /\ ret.value = LexSmallest(Preferred(MaxInfoWords))

\* C20: best_guess_by_expected_remaining returns a pool word with minimal
\* expected remaining, and where the two metrics tie on the same set of
\* words it selects the word best_guess_by_info selects.
C20_SameTieBreakAsInfo ==
    /\ called = "best_guess_by_expected_remaining" =>
          ret.raised = None /\ ret.value \in MinRemainingWords
    /\ (called = "both" /\ Len(pool) > 0 /\ MaxInfoWords = MinRemainingWords) =>
          ret.by_info.value = ret.by_expected_remaining.value

---------------------------------------------------------------------------
(* best_second_guess on candidates and valid_guesses listed in every order *)

\* longest valid_guesses list handed to best_second_guess
MaxSecondPool == 3

\* lists of distinct words, in every order, up to n long, never None
SecondPools == DistinctLists(MaxSecondPool)

\* candidates are a bucket of the sorted answers, valid_guesses any list
InitSecond ==
    /\ pool \in {Sorted(S) : S \in {T \in SUBSET SelectWords : Count(T) <= MaxCands}}
    /\ guess_pool \in SecondPools
    /\ guess = None
    /\ target = None
    /\ observed = None
    /\ called = "none"
    /\ ret = None
    /\ IdleGame

CallBestSecondGuess ==
    /\ called = "none"
    /\ guess = None
    /\ called' = "best_second_guess"
    /\ ret' = best_second_guess(pool, guess_pool)
    /\ UNCHANGED <<guess, target, pool, observed, guess_pool>>
    /\ UNCHANGED gameVars

\* the same call on the same words listed in sorted order
CallBestSecondGuessSorted ==
    /\ called = "best_second_guess"
    /\ called' = "best_second_guess_sorted"
    /\ ret' = [listed |-> ret,
               sorted |-> best_second_guess(pool, Sorted(Range(guess_pool)))]
    /\ UNCHANGED <<guess, target, pool, observed, guess_pool>>
    /\ UNCHANGED gameVars

NextSecond ==
    \/ CallBestSecondGuess
    \/ CallBestSecondGuessSorted

SpecSecond == InitSecond /\ [][NextSecond]_vars

\* a strictly before b in the order: expected remaining ascending, expected
\* information descending, candidates before non-candidates, word ascending
SecondBefore(a, b) ==
    LET ra == expected_remaining(a, pool)
        rb == expected_remaining(b, pool)
        ia == expected_information(a, pool)
        ib == expected_information(b, pool)
        ca == a \in Range(pool)
        cb == b \in Range(pool)
    IN \/ ra < rb
       \/ ra = rb /\ ia > ib
       \/ ra = rb /\ ia = ib /\ ca /\ ~cb
       \/ ra = rb /\ ia = ib /\ ca = cb /\ WordLess(a, b)

\* C21: best_second_guess returns the least word of valid_guesses under
\* the order (expected remaining ascending, expected information
\* descending, candidates first, word ascending), with its two scores; the
\* result is the same when the words are listed in another order.
C21_LeastUnderTotalOrder ==
    /\ (called = "best_second_guess" /\ Len(guess_pool) > 0) =>
          /\ ret.best_word \in Range(guess_pool)
          /\ \A v \in Range(guess_pool) :
                v = ret.best_word \/ SecondBefore(ret.best_word, v)
          /\ ret.best_exp_rem = expected_remaining(ret.best_word, pool)
          /\ ret.best_info = expected_information(ret.best_word, pool)
    /\ called = "best_second_guess_sorted" => ret.listed = ret.sorted

\* three listed words, fully tied with the returned one up to the word
\* comparison, and the returned word not listed first
C21_Witness ==
    /\ called = "best_second_guess"
    /\ Len(guess_pool) = 3
    /\ Len(pool) = 3
    /\ ret.best_word # guess_pool[1]
    /\ \A v \in Range(guess_pool) :
          /\ expected_remaining(v, pool) = ret.best_exp_rem
          /\ expected_information(v, pool) = ret.best_info
          /\ v \in Range(pool)

---------------------------------------------------------------------------
(* detect_one_position_trap on a bounded candidate list *)

cared == <<"c","a","r","e","d">>
carer == <<"c","a","r","e","r">>
cares == <<"c","a","r","e","s">>
dared == <<"d","a","r","e","d">>
jumbo == <<"j","u","m","b","o">>

\* words the candidate lists of the trap detection are drawn from: the
\* first NumTrapWords of TrapLexicon
TrapLexicon == <<bumpy, dumpy, jumpy, mummy, jumbo, cared, carer, cares, dared, raise>>

NumTrapWords == 9

TrapWords == {TrapLexicon[i] : i \in 1..NumTrapWords}

\* candidates are a sublist of the sorted answers
InitTrap ==
    /\ pool \in {Sorted(S) : S \in SUBSET TrapWords}
    /\ guess = None
    /\ target = None
    /\ observed = None
    /\ guess_pool = None
    /\ called = "none"
    /\ ret = None
    /\ IdleGame

CallFindVaryingPositions ==
    /\ called = "none"
    /\ guess = None
    /\ called' = "find_varying_positions"
    /\ ret' = find_varying_positions(pool)
    /\ UNCHANGED <<guess, target, pool, observed, guess_pool>>
    /\ UNCHANGED gameVars

CallDetectOnePositionTrap ==
    /\ called = "none"
    /\ guess = None
    /\ called' = "detect_one_position_trap"
    /\ ret' = detect_one_position_trap(pool)
    /\ UNCHANGED <<guess, target, pool, observed, guess_pool>>
    /\ UNCHANGED gameVars

NextTrap ==
    \/ CallFindVaryingPositions
    \/ CallDetectOnePositionTrap

SpecTrap == InitTrap /\ [][NextTrap]_vars

\* the letters the candidates show at position p
LettersAt(p) == {pool[k][p] : k \in DOMAIN pool}

\* the positions where the candidates show more than one letter
VaryingPositions == {p \in Pos : Count(LettersAt(p)) > 1}

\* position p has at least 3 letters and every other varying position at
\* most 2
Dominates(p) ==
    /\ Count(LettersAt(p)) >= 3
    /\ \A q \in VaryingPositions \ {p} : Count(LettersAt(q)) <= 2

\* a reported trap names a position with the most distinct letters, and
\* that position's letters
ReportsWidestPosition ==
    ret.is_trap =>
        /\ ret.pos \in VaryingPositions
        /\ \A q \in Pos : Count(LettersAt(q)) <= Count(LettersAt(ret.pos))
        /\ ret.letters = LettersAt(ret.pos)

\* C24 as stated: a trap is reported exactly when one position varies, or
\* one position has at least 3 letters and every other varying position at
\* most 2, for any number of other varying positions.
C24_TrapAnyNumberOfPositions ==
    called = "detect_one_position_trap" =>
        /\ ret.is_trap <=>
              \/ Count(VaryingPositions) = 1
              \/ \E p \in VaryingPositions : Dominates(p)
        /\ ReportsWidestPosition

\* C24 amended: a trap is reported exactly when one position varies, or
\* exactly two positions vary, one with at least 3 letters and the other
\* with at most 2; the reported position has the most distinct letters.
C24_TrapOneOrTwoPositions ==
    called = "detect_one_position_trap" =>
        /\ ret.is_trap <=>
              \/ Count(VaryingPositions) = 1
              \/ /\ Count(VaryingPositions) = 2
                 /\ \E p \in VaryingPositions : Dominates(p)
        /\ ReportsWidestPosition

\* a near-trap: two varying positions, the later one dominating
C24_Witness ==
    /\ called = "detect_one_position_trap"
    /\ Count(VaryingPositions) = 2
    /\ ret.is_trap
    /\ \E q \in VaryingPositions : q < ret.pos
    /\ Count(ret.letters) >= 3

---------------------------------------------------------------------------
(* The constraint filter applied across a guess history of two pairs *)

\* pool is a sublist of the sorted answers; (guess, observed) is one pair
InitHistory ==
    /\ pool \in {Sorted(S) : S \in SUBSET PoolWords}
    /\ guess \in PoolWords
    /\ observed \in ObservedSet
    /\ target = None
    /\ guess_pool = None
    /\ called = "none"
    /\ ret = None
    /\ IdleGame

\* the pool filtered by (guess, observed) and a second pair (g2, f2), in
\* both orders
CallFilterHistory ==
    /\ called = "none"
    /\ target = None
    /\ \E g2 \in PoolWords : \E f2 \in ObservedSet :
          ret' = [g2 |-> g2, f2 |-> f2,
                  first_then_second |->
                      filter_candidates(filter_candidates(pool, guess, observed), g2, f2),
                  second_then_first |->
                      filter_candidates(filter_candidates(pool, g2, f2), guess, observed)]
    /\ called' = "filter_history"
    /\ UNCHANGED <<guess, target, pool, observed, guess_pool>>
    /\ UNCHANGED gameVars

NextHistory == CallFilterHistory

SpecHistory == InitHistory /\ [][NextHistory]_vars

\* C30: filtering a pool by two (guess, feedback) pairs gives the same list
\* in either order: the pool's words that agree with both pairs, in pool
\* order.
C30_FilterOrderIndependent ==
    called = "filter_history" =>
        /\ ret.first_then_second = ret.second_then_first
        /\ ret.first_then_second =
              SelectSeq(pool, LAMBDA w : /\ compute_feedback(guess, w) = observed
                                         /\ compute_feedback(ret.g2, w) = ret.f2)

\* two different pairs that both remove words, the second one a word the
\* first keeps, and a word that survives both
C30_Witness ==
    /\ called = "filter_history"
    /\ ret.g2 # guess
    /\ Len(ret.first_then_second) >= 1
    /\ Len(filter_candidates(pool, guess, observed)) > Len(ret.first_then_second)
    /\ Len(filter_candidates(pool, guess, observed)) < Len(pool)
    /\ Len(filter_candidates(pool, ret.g2, ret.f2)) < Len(pool)

====
